---------------------------- MODULE Spec2Model ----------------------------
(***************************************************************************)
(* Color Palette Generator (src/script.js): the colour picker state, the   *)
(* harmony palette derivation, the palette display with its copy feedback, *)
(* and the pointer / text / button event handlers.                         *)
(*                                                                         *)
(* Colour arithmetic.  script.js delegates colour conversion to the        *)
(* tinycolor2 library (imported at script.js:8, not part of the            *)
(* repository).  The operators of the section "tinycolor2" compute what    *)
(* that library computes, in exact rational arithmetic instead of IEEE     *)
(* doubles: a hex string is an 8-bit RGB triple; an HSL / HSV input is     *)
(* truncated to 1/10000 (bound01 on a percentage), converted with the      *)
(* standard formulas and rounded to 8 bits by toHexString.  A number is a  *)
(* pair <<n, d>> (n / d, d > 0, in lowest terms).  A text is a sequence of *)
(* one-character strings.                                                  *)
(***************************************************************************)
EXTENDS Integers, Sequences, FiniteSets, TLC

(***************************************************************************)
(* Values.  A JavaScript call evaluates each argument once.  An operator   *)
(* that uses an argument more than once therefore binds its value first:   *)
(*     CHOOSE r \in {e : x \in {arg}} : TRUE                               *)
(* is e with x standing for the value of arg.                              *)
(***************************************************************************)
(***************************************************************************)
(* Rational numbers                                                        *)
(***************************************************************************)
\* Euclid's algorithm
gcd[a \in Nat, b \in Nat] == IF b = 0 THEN a ELSE gcd[b, a % b]

GCD(a, b) == gcd[a, b]

Abs(x0) == CHOOSE r \in {IF x < 0 THEN -x ELSE x : x \in {x0}} : TRUE

Rat(n0, d0) ==
    CHOOSE r \in {IF n = 0 THEN <<0, 1>> ELSE <<n \div g, d \div g>> :
                  <<n, d, g>> \in {<<n0, d0, GCD(Abs(n0), d0)>>}} : TRUE

RInt(k) == <<k, 1>>

RAdd(p0, q0) ==
    CHOOSE r \in {Rat(p[1] * q[2] + q[1] * p[2], p[2] * q[2]) : p \in {p0}, q \in {q0}} : TRUE

RSub(p0, q0) ==
    CHOOSE r \in {Rat(p[1] * q[2] - q[1] * p[2], p[2] * q[2]) : p \in {p0}, q \in {q0}} : TRUE

RLess(p0, q0) == \E p \in {p0}, q \in {q0} : p[1] * q[2] < q[1] * p[2]

RLeq(p0, q0) == \E p \in {p0}, q \in {q0} : p[1] * q[2] <= q[1] * p[2]

RFloor(p0) == CHOOSE r \in {p[1] \div p[2] : p \in {p0}} : TRUE

\* JavaScript's % on numbers: the remainder has the sign of the dividend.
RModInt(p0, m0) ==
    CHOOSE r \in {IF p[1] >= 0
                  THEN RSub(p, RInt(m * (p[1] \div (p[2] * m))))
                  ELSE RSub(RInt(m * ((-p[1]) \div (p[2] * m))), <<-p[1], p[2]>>) :
                  p \in {p0}, m \in {m0}} : TRUE

\* Math.max(0, Math.min(1, x)) and tinycolor's clamp01
clamp01(p0) ==
    CHOOSE r \in {IF p[1] < 0 THEN RInt(0) ELSE IF p[1] > p[2] THEN RInt(1) ELSE p :
                  p \in {p0}} : TRUE

Max2(a0, b0) == CHOOSE r \in {IF a >= b THEN a ELSE b : a \in {a0}, b \in {b0}} : TRUE
Min2(a0, b0) == CHOOSE r \in {IF a <= b THEN a ELSE b : a \in {a0}, b \in {b0}} : TRUE

(***************************************************************************)
(* Texts and hexadecimal digits                                            *)
(***************************************************************************)
LowerHex == <<"0", "1", "2", "3", "4", "5", "6", "7", "8", "9", "a", "b", "c", "d", "e", "f">>
UpperHex == <<"0", "1", "2", "3", "4", "5", "6", "7", "8", "9", "A", "B", "C", "D", "E", "F">>

\* the value of each character of [0-9a-fA-F]
hexValue ==
    [c \in {LowerHex[i] : i \in 1..16} \cup {UpperHex[i] : i \in 1..16} |->
        (CHOOSE i \in 1..16 : LowerHex[i] = c \/ UpperHex[i] = c) - 1]

IsHexChar(c) == c \in DOMAIN hexValue
HexVal(c) == hexValue[c]

\* pad2(Math.round(c).toString(16))
pad2(n0) ==
    CHOOSE r \in {<<LowerHex[(n \div 16) + 1], LowerHex[(n % 16) + 1]>> : n \in {n0}} : TRUE

(***************************************************************************)
(* tinycolor2 (external library, imported at script.js:8)                  *)
(*                                                                         *)
(* A tinycolor instance is a record [ok, fmt, x, y, z]:                    *)
(*   fmt = "rgb": x, y, z are the 8-bit channels parsed from a hex string; *)
(*   fmt = "hsl": x is the hue in degrees (a rational), y and z are the    *)
(*                saturation and lightness in units of 1 / Unit;           *)
(*   fmt = "hsv": x is the hue, y and z the saturation and value likewise; *)
(*   ok = FALSE : the input did not parse (isValid() is false).            *)
(***************************************************************************)
\* bound01 of a percentage keeps parseInt(n * 100) / 100 percent
Unit == 100 * 100

InvalidColor == [ok |-> FALSE, fmt |-> "rgb", x |-> 0, y |-> 0, z |-> 0]

\* bound01(convertToPercentage(n), 100) for n in [0, 1], in units of 1 / Unit
bound01(p0) ==
    CHOOSE r \in {Max2(0, Min2(Unit, (p[1] * Unit) \div p[2])) : p \in {p0}} : TRUE

\* bound01(h, 360) * 360: the hue clamped to [0, 360], 360 wrapping to 0
boundHue(h0) ==
    CHOOSE r \in {IF h[1] < 0 \/ h[1] >= 360 * h[2] THEN RInt(0) ELSE h : h \in {h0}} : TRUE

AllHex(t) == \A c \in {t[i] : i \in 1..Len(t)} : IsHexChar(c)

\* the text without its leading "#", if it has one
hexDigits(t0) ==
    CHOOSE r \in {IF Len(t) > 0 /\ t[1] = "#" THEN Tail(t) ELSE t : t \in {t0}} : TRUE

\* stringInputToObject restricted to the hex forms (#rgb, #rgba, #rrggbb,
\* #rrggbbaa, the "#" optional, either case); the alpha digits are parsed
\* and play no part in toHexString.
stringInputToObject(t) ==
    CHOOSE r \in {
        LET byte(i) == 16 * HexVal(body[i]) + HexVal(body[i + 1])
            nib(i) == 17 * HexVal(body[i])
        IN  IF ~AllHex(body) THEN InvalidColor
            ELSE IF Len(body) \in {6, 8}
                 THEN [ok |-> TRUE, fmt |-> "rgb", x |-> byte(1), y |-> byte(3), z |-> byte(5)]
            ELSE IF Len(body) \in {3, 4}
                 THEN [ok |-> TRUE, fmt |-> "rgb", x |-> nib(1), y |-> nib(2), z |-> nib(3)]
            ELSE InvalidColor : body \in {hexDigits(t)}} : TRUE

\* tinycolor(text)
tinycolor(t) == stringInputToObject(t)

\* tinycolor({h, s, l}): always valid for finite numbers
tinycolorHsl(h, s, l) ==
    [ok |-> TRUE, fmt |-> "hsl", x |-> h, y |-> bound01(s), z |-> bound01(l)]

\* tinycolor({h, s, v})
tinycolorHsv(h, s, v) ==
    [ok |-> TRUE, fmt |-> "hsv", x |-> h, y |-> bound01(s), z |-> bound01(v)]

\* Math.round(255 * (P + D * gn / gd) / Unit^2), the products kept below 2^31
Round255(P0, D0, gn0, gd0) ==
    CHOOSE r \in {
        LET D1 == D \div gd
            D0gn == (D % gd) * gn
            Zi == P + D1 * gn + (D0gn \div gd)
            fl == (255 * (D0gn % gd)) \div gd
            carry == (255 * (Zi % Unit) + fl) \div Unit
        IN  (255 * (Zi \div Unit) + (Unit \div 2) + carry) \div Unit :
        P \in {P0}, D \in {D0}, gn \in {gn0}, gd \in {gd0}} : TRUE

\* t of hue2rgb brought into [0, 1] (T = 6 * t into [0, 6])
hueTurn(T0) ==
    CHOOSE r \in {IF T[1] < 0 THEN RAdd(T, RInt(6))
                  ELSE IF T[1] > 6 * T[2] THEN RSub(T, RInt(6))
                  ELSE T : T \in {T0}} : TRUE

\* hue2rgb(p, q, t) as the weight g with result p + (q - p) * g; T = 6 * t
hue2rgb(T0) ==
    CHOOSE r \in {IF T[1] < T[2] THEN T
                  ELSE IF T[1] < 3 * T[2] THEN RInt(1)
                  ELSE IF T[1] < 4 * T[2] THEN RSub(RInt(4), T)
                  ELSE RInt(0) : T \in {hueTurn(T0)}} : TRUE

\* one channel of hslToRgb, rounded: Math.round(255 * hue2rgb(p, q, t))
hslChannel(P, Q, T) ==
    CHOOSE r \in {Round255(P, Q - P, g[1], g[2]) : g \in {hue2rgb(T)}} : TRUE

\* q of hslToRgb, in units of 1 / Unit^2
hslQ(S0, L0) ==
    CHOOSE r \in {IF 2 * L < Unit THEN L * (Unit + S) ELSE Unit * L + Unit * S - L * S :
                  S \in {S0}, L \in {L0}} : TRUE

\* h * 6 of hslToRgb and hsvToRgb, h being bound01(hue, 360)
hueSixth(h) == CHOOSE r \in {Rat(b[1], 60 * b[2]) : b \in {boundHue(h)}} : TRUE

\* hslToRgb followed by Math.round of each channel
hslToRgb(h, S0, L0) ==
    CHOOSE r \in {
        IF S = 0
        THEN <<(2 * 255 * L + Unit) \div (2 * Unit), (2 * 255 * L + Unit) \div (2 * Unit),
               (2 * 255 * L + Unit) \div (2 * Unit)>>
        ELSE <<hslChannel(2 * Unit * L - Q, Q, RAdd(H6, RInt(2))),
               hslChannel(2 * Unit * L - Q, Q, H6),
               hslChannel(2 * Unit * L - Q, Q, RSub(H6, RInt(2)))>> :
        S \in {S0}, L \in {L0}, Q \in {hslQ(S0, L0)}, H6 \in {hueSixth(h)}} : TRUE

\* hsvToRgb followed by Math.round of each channel
hsvToRgb(h, S0, V0) ==
    CHOOSE r \in {
        LET i == H6[1] \div H6[2]
            f == <<H6[1] - i * H6[2], H6[2]>>
            P == V * (Unit - S)
            D == V * S
            v == Round255(P, D, 1, 1)
            p == Round255(P, D, 0, 1)
            q == Round255(P, D, f[2] - f[1], f[2])
            t == Round255(P, D, f[1], f[2])
            mod == i % 6
        IN  <<(<<v, q, p, p, t, v>>)[mod + 1],
              (<<t, v, v, q, p, p>>)[mod + 1],
              (<<p, p, t, v, v, q>>)[mod + 1]>> :
        S \in {S0}, V \in {V0}, H6 \in {hueSixth(h)}} : TRUE

\* the 8-bit channels toHexString prints
toRgb(c0) ==
    CHOOSE r \in {IF c.fmt = "rgb" THEN <<c.x, c.y, c.z>>
                  ELSE IF c.fmt = "hsl" THEN hslToRgb(c.x, c.y, c.z)
                  ELSE hsvToRgb(c.x, c.y, c.z) : c \in {c0}} : TRUE

\* toHexString without pad2: a byte below 16 prints as one digit
toHexStringUnpadded(c) ==
    LET rgb == toRgb(c)
        digits(b) == IF b < 16 THEN <<LowerHex[b + 1]>> ELSE pad2(b)
    IN  <<"#">> \o digits(rgb[1]) \o digits(rgb[2]) \o digits(rgb[3])

\* toHexString(): "#" and three lower-case two-digit bytes
toHexString(c) ==
    CHOOSE r \in {<<"#">> \o pad2(rgb[1]) \o pad2(rgb[2]) \o pad2(rgb[3]) :
                  rgb \in {toRgb(c)}} : TRUE

\* the hue of rgbToHsl / rgbToHsv, in degrees
rgbHue(r0, g0, b0) ==
    CHOOSE x \in {
        IF d = 0 THEN RInt(0)
        ELSE IF mx = r THEN Rat(60 * ((g - b) + (IF g < b THEN 6 * d ELSE 0)), d)
        ELSE IF mx = g THEN Rat(60 * ((b - r) + 2 * d), d)
        ELSE Rat(60 * ((r - g) + 4 * d), d) :
        <<r, g, b, mx, d>> \in {<<r0, g0, b0, Max2(r0, Max2(g0, b0)),
                                  Max2(r0, Max2(g0, b0)) - Min2(r0, Min2(g0, b0))>>}} : TRUE

\* toHsl(): [h, s, l] with h in degrees, s and l in [0, 1]
toHsl(c0) ==
    CHOOSE r \in {
        IF c.fmt = "rgb"
        THEN CHOOSE x \in {
                [h |-> rgbHue(c.x, c.y, c.z),
                 s |-> IF mx = mn THEN RInt(0)
                       ELSE IF mx + mn > 255 THEN Rat(mx - mn, 2 * 255 - mx - mn)
                       ELSE Rat(mx - mn, mx + mn),
                 l |-> Rat(mx + mn, 2 * 255)] :
                mx \in {Max2(c.x, Max2(c.y, c.z))}, mn \in {Min2(c.x, Min2(c.y, c.z))}} : TRUE
        ELSE IF c.y = 0 \/ c.z = 0 \/ c.z = Unit
             THEN [h |-> RInt(0), s |-> RInt(0), l |-> Rat(c.z, Unit)]
             ELSE [h |-> boundHue(c.x), s |-> Rat(c.y, Unit), l |-> Rat(c.z, Unit)] :
        c \in {c0}} : TRUE

\* toHsv() of a colour parsed from a hex string
toHsv(c0) ==
    CHOOSE r \in {
        CHOOSE x \in {
            [h |-> rgbHue(c.x, c.y, c.z),
             s |-> IF mx = 0 THEN RInt(0) ELSE Rat(mx - mn, mx),
             v |-> Rat(mx, 255)] :
            mx \in {Max2(c.x, Max2(c.y, c.z))}, mn \in {Min2(c.x, Min2(c.y, c.z))}} : TRUE :
        c \in {c0}} : TRUE

lighten(c, amount) ==
    CHOOSE r \in {tinycolorHsl(hsl.h, hsl.s, clamp01(RAdd(hsl.l, Rat(amount, 100)))) :
                  hsl \in {toHsl(c)}} : TRUE

darken(c, amount) ==
    CHOOSE r \in {tinycolorHsl(hsl.h, hsl.s, clamp01(RSub(hsl.l, Rat(amount, 100)))) :
                  hsl \in {toHsl(c)}} : TRUE

desaturate(c, amount) ==
    CHOOSE r \in {tinycolorHsl(hsl.h, clamp01(RSub(hsl.s, Rat(amount, 100))), hsl.l) :
                  hsl \in {toHsl(c)}} : TRUE

\* (hue + 360) when the remainder is negative
positiveHue(h0) ==
    CHOOSE r \in {IF h[1] < 0 THEN RAdd(h, RInt(360)) ELSE h : h \in {h0}} : TRUE

spin(c, amount) ==
    CHOOSE r \in {tinycolorHsl(positiveHue(RModInt(RAdd(hsl.h, RInt(amount)), 360)),
                               hsl.s, hsl.l) :
                  hsl \in {toHsl(c)}} : TRUE

\* the colour whose hue is turned by deg degrees (complement, polyad, splitcomplement)
turned(c, deg) ==
    CHOOSE r \in {tinycolorHsl(RModInt(RAdd(hsl.h, RInt(deg)), 360), hsl.s, hsl.l) :
                  hsl \in {toHsl(c)}} : TRUE

\* the RGB negative taken for the complement
complementNegative(c) ==
    LET rgb == toRgb(c)
    IN  [ok |-> TRUE, fmt |-> "rgb", x |-> 255 - rgb[1], y |-> 255 - rgb[2], z |-> 255 - rgb[3]]

complement(c) == turned(c, 180)

\* polyad(3), polyad(4) and splitcomplement: the colour, then its hue turned
turns(c0, degs) ==
    CHOOSE r \in {<<c>> \o [k \in 1..Len(degs) |-> turned(c, degs[k])] : c \in {c0}} : TRUE

triad(c) == turns(c, <<120, 240>>)

tetrad(c) == turns(c, <<90, 180, 270>>)

splitcomplement(c) == turns(c, <<72, 216>>)

\* analogous(results) with the default 30 slices: the colour itself, then
\* results - 1 colours 12 degrees apart starting 36 - 12 degrees below it
analogous(c0, results) ==
    CHOOSE r \in {
        <<c>> \o [k \in 1..(results - 1) |->
                    tinycolorHsl(
                        RModInt(RAdd(RModInt(RAdd(RSub(hsl.h,
                                                       RInt(((360 \div 30) * results) \div 2)),
                                                  RInt(720)), 360),
                                     RInt(k * (360 \div 30))), 360),
                        hsl.s, hsl.l)] :
        c \in {c0}, hsl \in {toHsl(c0)}} : TRUE

\* monochromatic(results): the colour's own value first, then the value
\* stepped by 1 / results modulo 1
monochromatic(c, results) ==
    CHOOSE r \in {
        [k \in 1..results |->
            tinycolorHsv(hsv.h, hsv.s,
                         IF k = 1 THEN hsv.v
                         ELSE RModInt(RAdd(hsv.v, Rat(k - 1, results)), 1))] :
        hsv \in {toHsv(c)}} : TRUE

(***************************************************************************)
(* script.js: palette functions                                            *)
(***************************************************************************)
NUM_COLORS_PER_PALETTE == 5

\* slice that keeps the whole array: the truncation to to elements forgotten
sliceWhole(a, from, to) == a

\* Array.prototype.slice(from, to) with 0-based bounds
slice(a0, from, to) ==
    CHOOSE r \in {SubSeq(a, from + 1, Min2(to, Len(a))) : a \in {a0}} : TRUE

\* array.map(color => tinycolor(color))
mapTinycolor(a0) == CHOOSE r \in {[i \in 1..Len(a) |-> tinycolor(a[i])] : a \in {a0}} : TRUE

\* array.map(tc => tc.toHexString())
mapToHexString(a0) ==
    CHOOSE r \in {[i \in 1..Len(a) |-> toHexString(a[i])] : a \in {a0}} : TRUE

\* The value of harmonyColors at the end of the switch of
\* generateHarmonyPalette, for a valid base.
harmonyColors(base0, harmonyRule) ==
    CHOOSE r \in {
        CASE harmonyRule = "analogous" ->
                <<toHexString(base)>> \o
                slice(mapToHexString(analogous(base, NUM_COLORS_PER_PALETTE + 1)),
                      1, NUM_COLORS_PER_PALETTE)
          [] harmonyRule = "monochromatic" ->
                mapToHexString(monochromatic(base, NUM_COLORS_PER_PALETTE))
          [] harmonyRule = "splitcomplement" ->
                CHOOSE x \in {
                    slice(<<splitComps[1],
                            splitComps[2],
                            toHexString(lighten(tinycolor(splitComps[2]), 15)),
                            splitComps[3],
                            toHexString(darken(tinycolor(splitComps[3]), 15))>>,
                          0, NUM_COLORS_PER_PALETTE) :
                    splitComps \in {mapToHexString(splitcomplement(base))}} : TRUE
          [] harmonyRule = "triad" ->
                CHOOSE x \in {
                    CHOOSE y \in {
                        slice(IF Len(t1) < NUM_COLORS_PER_PALETTE /\ Len(t1) > 2
                              THEN Append(t1, toHexString(darken(tinycolor(t1[3]), 20)))
                              ELSE t1,
                              0, NUM_COLORS_PER_PALETTE) :
                        t1 \in {IF Len(t0) < NUM_COLORS_PER_PALETTE /\ Len(t0) > 1
                                THEN Append(t0, toHexString(lighten(tinycolor(t0[2]), 20)))
                                ELSE t0}} : TRUE :
                    t0 \in {mapToHexString(triad(base))}} : TRUE
          [] harmonyRule = "tetrad" ->
                CHOOSE x \in {
                    slice(IF Len(t0) < NUM_COLORS_PER_PALETTE
                          THEN Append(t0, toHexString(lighten(tinycolor(t0[1]), 20)))
                          ELSE t0,
                          0, NUM_COLORS_PER_PALETTE) :
                    t0 \in {mapToHexString(tetrad(base))}} : TRUE
          [] harmonyRule = "complement" ->
                CHOOSE x \in {
                    slice(<<toHexString(base),
                            toHexString(lighten(base, 20)),
                            complementColor,
                            toHexString(lighten(tinycolor(complementColor), 20)),
                            toHexString(desaturate(spin(base, 30), 10))>>,
                          0, NUM_COLORS_PER_PALETTE) :
                    complementColor \in {toHexString(complement(base))}} : TRUE
          [] harmonyRule = "shades" ->
                slice(<<toHexString(darken(base, 30)),
                        toHexString(darken(base, 15)),
                        toHexString(base),
                        toHexString(lighten(base, 15)),
                        toHexString(lighten(base, 30))>>,
                      0, NUM_COLORS_PER_PALETTE)
          [] OTHER -> <<toHexString(base)>> :
        base \in {base0}} : TRUE

\* generateHarmonyPalette without its isValid() check (script.js:219-226)
generateHarmonyPaletteUnchecked(baseColorValue, harmonyRule) ==
    [alert |-> FALSE,
     palette |-> mapToHexString(mapTinycolor(harmonyColors(tinycolor(baseColorValue),
                                                           harmonyRule)))]

\* generateHarmonyPalette(baseColorValue, harmonyRule): [alert, palette],
\* palette = <<>> standing for null (no harmony palette is empty).
generateHarmonyPalette(baseColorValue, harmonyRule) ==
    CHOOSE r \in {
        IF ~base.ok
        THEN [alert |-> TRUE, palette |-> <<>>]
        ELSE [alert |-> FALSE,
              palette |-> mapToHexString(mapTinycolor(harmonyColors(base, harmonyRule)))] :
        base \in {tinycolor(baseColorValue)}} : TRUE

\* getRandomHexColor with a loop that stops one character early
getRandomHexColorShort(draws) ==
    <<"#">> \o [k \in 1..5 |-> UpperHex[RFloor(<<draws[k][1] * 16, draws[k][2]>>) + 1]]

\* getRandomHexColor(): "#" and six characters of '0123456789ABCDEF', the
\* k-th at index Math.floor(Math.random() * 16), draws[k] being the value
\* in [0, 1) that the k-th call of Math.random() returns
getRandomHexColor(draws) ==
    <<"#">> \o [k \in 1..6 |-> UpperHex[RFloor(<<draws[k][1] * 16, draws[k][2]>>) + 1]]

\* generatePalette(): NUM_COLORS_PER_PALETTE random colours, from 6 draws each
generatePalette(draws) ==
    [i \in 1..NUM_COLORS_PER_PALETTE |->
        getRandomHexColor([k \in 1..6 |-> draws[6 * (i - 1) + k]])]

IsValidText(t) == tinycolor(t).ok

\* displayPalette(colors, title): the new content of the palette section.
\* One swatch per valid colour, hex its colour and text the textContent of
\* its hex-code label; message is the fallback paragraph.
displayPalette(colors, title0) ==
    CHOOSE r \in {
        [title |-> title, message |-> empty,
         swatches |-> [i \in 1..Len(valid) |-> [hex |-> valid[i], text |-> valid[i]]]] :
        title \in {title0},
        <<empty, valid>> \in
            {<<Len(c) = 0, mapToHexString(mapTinycolor(SelectSeq(c, IsValidText)))>> :
             c \in {colors}}} : TRUE

(***************************************************************************)
(* Bounds and inputs of the model                                          *)
(***************************************************************************)
\* clipboard writes and feedback timers pending at one time
MaxPending == 2
\* the swatches of a palette that get clicked: the first MaxClicked
MaxClicked == 1
\* outcomes of the random source tried by the random palette button
MaxSeeds == 1
\* outcomes of the random source tried on the random palette generator alone
MaxDraws == 63
\* the values of Math.random() tried are the multiples of 1 / RandomGrain in [0, 1)
RandomGrain == 64

Rules == {"analogous", "monochromatic", "splitcomplement", "triad", "tetrad",
          "complement", "shades", "default"}

\* texts typed into (or initially held by) the base colour field
ValidTexts == { <<"#", "3", "4", "9", "8", "d", "b">>, <<"F", "0", "0">> }
InvalidTexts == { <<"n", "o", "t", "a", "c", "o", "l", "o", "r">>, <<>>, <<"#", "1", "2">> }
TypedTexts == ValidTexts \cup InvalidTexts

\* base colour strings handed to handleGenerateHarmony's derivation: the
\* typed texts, black, white and a grey, and a pale colour
GreyTexts == { <<"#", "0", "0", "0", "0", "0", "0">>, <<"#", "f", "f", "f", "f", "f", "f">>,
               <<"#", "8", "0", "8", "0", "8", "0">> }
\* a colour that is nearly grey: its saturation is below the 10% that the
\* complement rule takes off
PaleTexts == { <<"#", "8", "0", "8", "2", "8", "4">> }
DeriveTexts == TypedTexts \cup GreyTexts \cup PaleTexts

\* Math.atan2(...) * 180 / Math.PI of the pointer positions tried, in (-180, 180]
PointerAngles == {-10, 90, 180}

\* the pointer positions <<x / width, y / height>> tried on the S/L pad:
\* its top-left and bottom-right corners, a position inside, and two
\* positions outside it (the pointer may leave the pad with the button held)
PadPositions == { <<RInt(0), RInt(0)>>, <<RInt(1), RInt(1)>>, <<Rat(1, 2), Rat(1, 4)>>,
                  <<Rat(-1, 2), Rat(3, 2)>>, <<Rat(3, 2), Rat(-1, 2)>> }

\* the 30 values Math.random() returns for one random palette, from seed n
RandomDraws(n) ==
    [k \in 1..(6 * NUM_COLORS_PER_PALETTE) |->
        <<(7 * k + 5 * n + (k * k) \div 3) % RandomGrain, RandomGrain>>]

Copied == <<"C", "o", "p", "i", "e", "d", "!">>

(***************************************************************************)
(* State                                                                   *)
(***************************************************************************)
VARIABLES
    currentHue,          \* script.js:32, a rational number of degrees
    currentSaturation,   \* script.js:33, a rational in [0, 1]
    currentLightness,    \* script.js:34, a rational in [0, 1]
    isDraggingHue,       \* script.js:35
    isDraggingSL,        \* script.js:36
    baseColorInput,      \* baseColorInput.value, a text
    harmonyRuleSelect,   \* harmonyRuleSelect.value
    paletteDisplay,      \* the content of the palette section (displayPalette)
    hueWheel,            \* what the last drawHueWheel call drew
    slPicker,            \* what the last drawSLPicker call drew
    clipboard,           \* pending navigator.clipboard.writeText promises
    timers,              \* pending setTimeout callbacks, in firing order
    lastEvent            \* the last handler run and what it did

vars == <<currentHue, currentSaturation, currentLightness, isDraggingHue,
          isDraggingSL, baseColorInput, harmonyRuleSelect, paletteDisplay,
          hueWheel, slPicker, clipboard, timers, lastEvent>>

picker == <<currentHue, currentSaturation, currentLightness>>
dragging == <<isDraggingHue, isDraggingSL>>
canvases == <<hueWheel, slPicker>>
copying == <<clipboard, timers>>

\* What a handler run did: alert is "none" or the alert shown, displayed /
\* redrawn tell whether displayPalette / the two draw functions were
\* called, uncaught whether an exception left the handler, input is what
\* the handler read of its event: the text typed, the pointer angle, the
\* pointer position on the pad, the seed of the random source (<<>> when it
\* read nothing).
Event(name, input, alert, displayed, redrawn, uncaught) ==
    [name |-> name, input |-> input, alert |-> alert, displayed |-> displayed,
     redrawn |-> redrawn, uncaught |-> uncaught]

Quiet(name) == Event(name, <<>>, "none", FALSE, FALSE, FALSE)

(***************************************************************************)
(* script.js: handlers                                                     *)
(***************************************************************************)
\* drawHueWheel called without the palette: no harmony indicator is drawn
drawHueWheelWithoutPalette(h, s, l, harmonyPaletteColors) ==
    [hue |-> h, saturation |-> s, lightness |-> l, colors |-> <<>>]

\* drawHueWheel(harmonyPaletteColors): the marker at currentHue, and one
\* indicator per colour of harmonyPaletteColors other than the base colour
\* tinycolor({h: currentHue, s: currentSaturation, l: currentLightness})
drawHueWheel(h, s, l, harmonyPaletteColors) ==
    [hue |-> h, saturation |-> s, lightness |-> l, colors |-> harmonyPaletteColors]

\* drawSLPicker(): the pad filled with currentHue, the marker at (s, 1 - l)
drawSLPicker(h, s, l) == [hue |-> h, saturation |-> s, lightness |-> l]

\* The swatches of a replaced palette leave the document: what is pending
\* on them stays pending and can no longer be seen (element 0).
detach(pending) == [k \in 1..Len(pending) |-> [el |-> 0, text |-> <<>>]]

\* handleGenerateHarmony() from the read of the field on (script.js:418),
\* the field holding baseColor and the select rule: the alert raised, the
\* palette returned (<<>> for null), whether displayPalette is called and
\* what it then puts in the palette section.
harmonyOfField(baseColor0, rule) ==
    CHOOSE x \in {
        CHOOSE y \in {
            [baseColor |-> baseColor,
             alert |-> r.alert,
             harmonyPalette |-> r.palette,
             displayed |-> r.palette # <<>>,
             display |-> IF r.palette # <<>>
                         THEN displayPalette(r.palette, <<rule, "Harmony">>)
                         ELSE <<>>] :
            r \in {generateHarmonyPalette(baseColor, rule)}} : TRUE :
        baseColor \in {baseColor0}} : TRUE

\* handleGenerateHarmony() for the picker state (h, s, l): the field is
\* first set to the hex string of the picker state.
handleGenerateHarmony(h, s, l, rule) ==
    harmonyOfField(toHexString(tinycolorHsl(h, s, l)), rule)

\* the values the inputs of the model can give the picker state, the
\* pointer angles and offsets as they come included
Hues == {RInt(0)} \cup {toHsl(tinycolor(t)).h : t \in ValidTexts}
          \cup {RInt((a + 360) % 360) : a \in PointerAngles}
          \cup {RInt(a) : a \in PointerAngles}
Saturations == {RInt(1)} \cup {toHsl(tinycolor(t)).s : t \in ValidTexts}
                \cup {clamp01(p[1]) : p \in PadPositions} \cup {p[1] : p \in PadPositions}
Lightnesses == {Rat(1, 2)} \cup {toHsl(tinycolor(t)).l : t \in ValidTexts}
                \cup {RSub(RInt(1), clamp01(p[2])) : p \in PadPositions}

\* handleGenerateHarmony tabulated over those picker states
harmonyTable ==
    [h \in Hues, s \in Saturations, l \in Lightnesses, rule \in Rules |->
        handleGenerateHarmony(h, s, l, rule)]

\* The effects of handleGenerateHarmony on the page, r being what it computed
shows(name, input, rule, r, redrawn) ==
    /\ harmonyRuleSelect' = rule
    /\ baseColorInput' = r.baseColor
    /\ paletteDisplay' = IF r.displayed THEN r.display ELSE paletteDisplay
    /\ clipboard' = IF r.displayed THEN detach(clipboard) ELSE clipboard
    /\ timers' = IF r.displayed THEN detach(timers) ELSE timers
    /\ lastEvent' = Event(name, input,
                          IF r.alert THEN "invalidBaseColor" ELSE "none",
                          r.displayed, redrawn, FALSE)

\* updateColorFromPicker() run by the handler `name` after it has set the
\* picker state to (h, s, l) and the selected rule to rule.
updateColorFromPicker(name, input, h, s, l, rule) ==
    \E r \in {harmonyTable[h, s, l, rule]} :
        /\ currentHue' = h
        /\ currentSaturation' = s
        /\ currentLightness' = l
        /\ shows(name, input, rule, r, TRUE)
        /\ hueWheel' = drawHueWheel(h, s, l, r.harmonyPalette)
        /\ slPicker' = drawSLPicker(h, s, l)

\* a click listener of the random palette button that also redraws the
\* wheel and the pad, as updateColorFromPicker does, with the random palette
randomPaletteBtnClickRedrawing(seed) ==
    /\ paletteDisplay' = displayPalette(generatePalette(RandomDraws(seed)), <<"Random", "Palette">>)
    /\ clipboard' = detach(clipboard)
    /\ timers' = detach(timers)
    /\ hueWheel' = drawHueWheel(currentHue, currentSaturation, currentLightness,
                                generatePalette(RandomDraws(seed)))
    /\ slPicker' = drawSLPicker(currentHue, currentSaturation, currentLightness)
    /\ lastEvent' = Event("randomPaletteBtn.click", seed, "none", TRUE, TRUE, FALSE)
    /\ UNCHANGED <<picker, dragging, baseColorInput, harmonyRuleSelect>>

\* randomPaletteBtn click listener
randomPaletteBtnClick(seed) ==
    /\ paletteDisplay' = displayPalette(generatePalette(RandomDraws(seed)), <<"Random", "Palette">>)
    /\ clipboard' = detach(clipboard)
    /\ timers' = detach(timers)
    /\ lastEvent' = Event("randomPaletteBtn.click", seed, "none", TRUE, FALSE, FALSE)
    /\ UNCHANGED <<picker, dragging, baseColorInput, harmonyRuleSelect, canvases>>

\* a click listener that reads the field before handleGenerateHarmony
\* overwrites it, and reports a text that does not parse
generateHarmonyBtnClickReadingField ==
    IF IsValidText(baseColorInput)
    THEN /\ updateColorFromPicker("generateHarmonyBtn.click", <<>>, currentHue,
                                  currentSaturation, currentLightness, harmonyRuleSelect)
         /\ UNCHANGED dragging
    ELSE /\ lastEvent' = Event("generateHarmonyBtn.click", <<>>, "invalidBaseColor",
                               FALSE, FALSE, FALSE)
         /\ UNCHANGED <<picker, dragging, baseColorInput, harmonyRuleSelect, paletteDisplay,
                        canvases, copying>>

\* generateHarmonyBtn click listener
generateHarmonyBtnClick ==
    /\ updateColorFromPicker("generateHarmonyBtn.click", <<>>, currentHue,
                             currentSaturation, currentLightness, harmonyRuleSelect)
    /\ UNCHANGED dragging

\* harmonyRuleSelect change listener, the user having selected rule
harmonyRuleSelectChange(rule) ==
    /\ rule # harmonyRuleSelect
    /\ updateColorFromPicker("harmonyRuleSelect.change", <<>>, currentHue,
                             currentSaturation, currentLightness, rule)
    /\ UNCHANGED dragging

\* the input listener without its isValid() check: the HSL of whatever
\* tinycolor made of the text is adopted
baseColorInputInputUnchecked(text) ==
    LET hsl == toHsl(tinycolor(text))
    IN  /\ updateColorFromPicker("baseColorInput.input", text, hsl.h, hsl.s, hsl.l,
                                 harmonyRuleSelect)
        /\ UNCHANGED dragging

\* the input listener with an else branch that alerts as
\* generateHarmonyPalette does
baseColorInputInputAlerting(text) ==
    LET color == tinycolor(text)
        hsl == toHsl(color)
    IN  IF color.ok
        THEN /\ updateColorFromPicker("baseColorInput.input", text, hsl.h, hsl.s, hsl.l,
                                      harmonyRuleSelect)
             /\ UNCHANGED dragging
        ELSE /\ baseColorInput' = text
             /\ lastEvent' = Event("baseColorInput.input", text, "invalidBaseColor",
                                   FALSE, FALSE, FALSE)
             /\ UNCHANGED <<picker, dragging, harmonyRuleSelect, paletteDisplay,
                            canvases, copying>>

\* baseColorInput input listener, the user having edited the field to text
baseColorInputInput(text) ==
    LET color == tinycolor(text)
        hsl == toHsl(color)
    IN  IF color.ok
        THEN /\ updateColorFromPicker("baseColorInput.input", text, hsl.h, hsl.s, hsl.l,
                                      harmonyRuleSelect)
             /\ UNCHANGED dragging
        ELSE /\ baseColorInput' = text
             /\ lastEvent' = Event("baseColorInput.input", text, "none", FALSE, FALSE, FALSE)
             /\ UNCHANGED <<picker, dragging, harmonyRuleSelect, paletteDisplay,
                            canvases, copying>>

\* angleDeg without `if (angleDeg < 0) angleDeg += 360`
angleDegRaw(angle) == angle

\* angleDeg of the hue wheel listeners: atan2 in degrees, negative angles
\* moved up by 360
angleDeg(angle) == IF angle < 0 THEN angle + 360 ELSE angle

\* hueWheelCanvas mousedown listener
hueWheelCanvasMousedown(angle) ==
    /\ isDraggingHue' = TRUE
    /\ updateColorFromPicker("hueWheelCanvas.mousedown", angle, RInt(angleDeg(angle)),
                             currentSaturation, currentLightness, harmonyRuleSelect)
    /\ UNCHANGED isDraggingSL

\* hueWheelCanvas mousemove listener
hueWheelCanvasMousemove(angle) ==
    IF isDraggingHue
    THEN /\ updateColorFromPicker("hueWheelCanvas.mousemove", angle, RInt(angleDeg(angle)),
                                  currentSaturation, currentLightness, harmonyRuleSelect)
         /\ UNCHANGED dragging
    ELSE /\ lastEvent' = Quiet("hueWheelCanvas.mousemove")
         /\ UNCHANGED <<picker, dragging, baseColorInput, harmonyRuleSelect,
                        paletteDisplay, canvases, copying>>

\* x / slPickerCanvas.width, not clamped
padSaturationUnclamped(x) == x

\* Math.max(0, Math.min(1, x / slPickerCanvas.width))
padSaturation(x) == clamp01(x)

\* 1 - Math.max(0, Math.min(1, y / slPickerCanvas.height))
padLightness(y) == RSub(RInt(1), clamp01(y))

\* a mousedown listener of the pad that takes the drag over from the wheel
slPickerCanvasMousedownExclusive(x, y) ==
    /\ isDraggingSL' = TRUE
    /\ updateColorFromPicker("slPickerCanvas.mousedown", <<x, y>>, currentHue,
                             padSaturation(x), padLightness(y), harmonyRuleSelect)
    /\ isDraggingHue' = FALSE

\* slPickerCanvas mousedown listener
slPickerCanvasMousedown(x, y) ==
    /\ isDraggingSL' = TRUE
    /\ updateColorFromPicker("slPickerCanvas.mousedown", <<x, y>>, currentHue,
                             padSaturation(x), padLightness(y), harmonyRuleSelect)
    /\ UNCHANGED isDraggingHue

\* slPickerCanvas mousemove listener
slPickerCanvasMousemove(x, y) ==
    IF isDraggingSL
    THEN /\ updateColorFromPicker("slPickerCanvas.mousemove", <<x, y>>, currentHue,
                                  padSaturation(x), padLightness(y), harmonyRuleSelect)
         /\ UNCHANGED dragging
    ELSE /\ lastEvent' = Quiet("slPickerCanvas.mousemove")
         /\ UNCHANGED <<picker, dragging, baseColorInput, harmonyRuleSelect,
                        paletteDisplay, canvases, copying>>

\* a mouseup listener that clears the hue flag only
documentMouseupHueOnly ==
    /\ isDraggingHue' = FALSE
    /\ lastEvent' = Quiet("document.mouseup")
    /\ UNCHANGED <<picker, isDraggingSL, baseColorInput, harmonyRuleSelect,
                   paletteDisplay, canvases, copying>>

\* document mouseup listener
documentMouseup ==
    /\ isDraggingHue' = FALSE
    /\ isDraggingSL' = FALSE
    /\ lastEvent' = Quiet("document.mouseup")
    /\ UNCHANGED <<picker, baseColorInput, harmonyRuleSelect, paletteDisplay,
                   canvases, copying>>

\* handleGenerateHarmony tabulated from the read of the field on, over
\* the base colour strings tried
fieldTable ==
    [text \in DeriveTexts, rule \in Rules |-> harmonyOfField(text, rule)]

\* handleGenerateHarmony() from the read of the field on (script.js:418 to
\* 429), the field holding text and the select rule: the derivation and
\* the display of its result, applied to any base colour string
handleGenerateHarmonyOfField(text, rule) ==
    /\ shows("handleGenerateHarmony", text, rule, fieldTable[text, rule], FALSE)
    /\ UNCHANGED <<picker, dragging, canvases>>

(***************************************************************************)
(* script.js: copyColor, the click listener of a swatch and of its label   *)
(***************************************************************************)
RemoveAt(q, k) == SubSeq(q, 1, k - 1) \o SubSeq(q, k + 1, Len(q))

\* copyColor up to its await: navigator.clipboard.writeText(hex) is pending
swatchClick(el) ==
    /\ el \in 1..Len(paletteDisplay.swatches)
    /\ Len(clipboard) + Len(timers) < MaxPending
    /\ clipboard' = Append(clipboard, [el |-> el, text |-> <<>>])
    /\ lastEvent' = Quiet("swatch.click")
    /\ UNCHANGED <<picker, dragging, baseColorInput, harmonyRuleSelect,
                   paletteDisplay, canvases, timers>>

\* copyColor after the await, the write having succeeded: originalText is
\* read from the label, the label set to "Copied!", the timer started
writeTextResolved(k) ==
    LET el == clipboard[k].el
        originalText == IF el = 0 THEN <<>> ELSE paletteDisplay.swatches[el].text
    IN  /\ clipboard' = RemoveAt(clipboard, k)
        /\ paletteDisplay' =
              IF el = 0 THEN paletteDisplay
              ELSE [paletteDisplay EXCEPT !.swatches[el].text = Copied]
        /\ timers' = Append(timers, [el |-> el, text |-> originalText])
        /\ lastEvent' = Quiet("writeText.resolved")
        /\ UNCHANGED <<picker, dragging, baseColorInput, harmonyRuleSelect, canvases>>

\* The catch block of copyColor: console.error, then the argument of alert
\* is evaluated.  Its template names `color`, which no enclosing scope
\* declares (the swatch's colour is colorString / hex): the evaluation
\* throws a ReferenceError inside the catch block, alert is never called
\* and the promise of copyColor is rejected.
copyColorCatch ==
    [alert |-> "none", uncaught |-> TRUE]

\* copyColor after the await, the write having failed
writeTextRejected(k) ==
    /\ clipboard' = RemoveAt(clipboard, k)
    /\ lastEvent' = Event("writeText.rejected", <<>>, copyColorCatch.alert,
                          FALSE, FALSE, copyColorCatch.uncaught)
    /\ UNCHANGED <<picker, dragging, baseColorInput, harmonyRuleSelect,
                   paletteDisplay, canvases, timers>>

\* the setTimeout callback of copyColor, 1000 ms after it was started
timerFired ==
    /\ Len(timers) > 0
    /\ LET el == Head(timers).el
       IN  paletteDisplay' =
              IF el = 0 THEN paletteDisplay
              ELSE [paletteDisplay EXCEPT !.swatches[el].text = Head(timers).text]
    /\ timers' = Tail(timers)
    /\ lastEvent' = Quiet("timer")
    /\ UNCHANGED <<picker, dragging, baseColorInput, harmonyRuleSelect, canvases,
                   clipboard>>

(***************************************************************************)
(* Specification                                                           *)
(***************************************************************************)
\* initializeApp(), run once by the DOMContentLoaded listener, the page
\* giving the field the value text and the select the value rule
initializeApp(text, rule) ==
    LET initialColor == tinycolor(text)
        hsl == toHsl(initialColor)
        h == IF initialColor.ok THEN hsl.h ELSE RInt(0)
        s == IF initialColor.ok THEN hsl.s ELSE RInt(1)
        l == IF initialColor.ok THEN hsl.l ELSE Rat(1, 2)
    IN  \E r \in {handleGenerateHarmony(h, s, l, rule)} :
        /\ currentHue = h
        /\ currentSaturation = s
        /\ currentLightness = l
        /\ isDraggingHue = FALSE
        /\ isDraggingSL = FALSE
        /\ harmonyRuleSelect = rule
        /\ baseColorInput = r.baseColor
        /\ paletteDisplay = IF r.displayed
                            THEN r.display
                            ELSE [title |-> <<>>, message |-> FALSE, swatches |-> <<>>]
        /\ hueWheel = drawHueWheel(h, s, l, r.harmonyPalette)
        /\ slPicker = drawSLPicker(h, s, l)
        /\ clipboard = <<>>
        /\ timers = <<>>
        /\ lastEvent = Event("initializeApp", text,
                             IF r.alert THEN "invalidBaseColor" ELSE "none",
                             r.displayed, TRUE, FALSE)

Init == \E text \in TypedTexts, rule \in Rules : initializeApp(text, rule)

\* The picker: the listeners that read or write the picker state
Next ==
    \/ generateHarmonyBtnClick
    \/ \E rule \in Rules : harmonyRuleSelectChange(rule)
    \/ \E text \in TypedTexts : baseColorInputInput(text)
    \/ \E angle \in PointerAngles : hueWheelCanvasMousedown(angle)
    \/ \E angle \in PointerAngles : hueWheelCanvasMousemove(angle)
    \/ \E p \in PadPositions : slPickerCanvasMousedown(p[1], p[2])
    \/ \E p \in PadPositions : slPickerCanvasMousemove(p[1], p[2])
    \/ documentMouseup

Spec == Init /\ [][Next]_vars

\* The palette section: the swatch listeners, their promises and timers,
\* and the two buttons that replace the palette under them
NextCopy ==
    \/ \E el \in 1..MaxClicked : swatchClick(el)
    \/ \E k \in 1..Len(clipboard) : writeTextResolved(k)
    \/ \E k \in 1..Len(clipboard) : writeTextRejected(k)
    \/ timerFired
    \/ \E seed \in 1..MaxSeeds : randomPaletteBtnClick(seed)
    \/ generateHarmonyBtnClick

SpecCopy == Init /\ [][NextCopy]_vars

\* The derivation as a function of its inputs: the page loaded with a valid
\* colour in the field, then lines 418 to 429 of handleGenerateHarmony run
\* on every base colour string and rule tried
InitDerive == \E text \in ValidTexts : initializeApp(text, "analogous")

NextDerive ==
    \E text \in DeriveTexts, rule \in Rules : handleGenerateHarmonyOfField(text, rule)

SpecDerive == InitDerive /\ [][NextDerive]_vars

\* The random palette generator as a function of its random source: the
\* page loaded, then the random palette button clicked over and over
NextRandom == \E seed \in 0..MaxDraws : randomPaletteBtnClick(seed)

SpecRandom == Init /\ [][NextRandom]_vars

\* The picker with the random palette button beside it
NextPickerRandom ==
    \/ Next
    \/ \E seed \in 1..MaxSeeds : randomPaletteBtnClick(seed)

SpecPickerRandom == Init /\ [][NextPickerRandom]_vars

(***************************************************************************)
(* Properties                                                              *)
(***************************************************************************)
\* C1: after a picker entry point succeeds (valid text typed, press or drag
\* on the wheel or the pad, rule change, generate click), the field holds
\* the hex string of (currentHue, currentSaturation, currentLightness), the
\* palette section shows generateHarmonyPalette(that hex, selected rule),
\* and the wheel and the pad have been redrawn with that palette and triple.
C1_SyncedAfterEntry ==
    LET succeeded ==
            \/ lastEvent.name \in {"hueWheelCanvas.mousedown", "slPickerCanvas.mousedown",
                                   "harmonyRuleSelect.change", "generateHarmonyBtn.click"}
            \/ lastEvent.name = "hueWheelCanvas.mousemove" /\ isDraggingHue
            \/ lastEvent.name = "slPickerCanvas.mousemove" /\ isDraggingSL
            \/ lastEvent.name = "baseColorInput.input" /\ IsValidText(lastEvent.input)
        hex == toHexString(tinycolorHsl(currentHue, currentSaturation, currentLightness))
        palette == generateHarmonyPalette(hex, harmonyRuleSelect).palette
        shown == [i \in 1..Len(paletteDisplay.swatches) |-> paletteDisplay.swatches[i].hex]
    IN  succeeded =>
            /\ baseColorInput = hex
            /\ palette # <<>>
            /\ lastEvent.displayed
            /\ shown = palette
            /\ lastEvent.redrawn
            /\ hueWheel.colors = palette
            /\ <<hueWheel.hue, hueWheel.saturation, hueWheel.lightness>> = picker
            /\ <<slPicker.hue, slPicker.saturation, slPicker.lightness>> = picker

\* a drag on the pad has just moved the picker inside the pad
C1_Witness ==
    /\ lastEvent.name = "slPickerCanvas.mousemove"
    /\ isDraggingSL
    /\ currentSaturation = Rat(1, 2)
    /\ Len(hueWheel.colors) = NUM_COLORS_PER_PALETTE
    /\ baseColorInput = toHexString(tinycolorHsl(currentHue, currentSaturation, currentLightness))

\* C2: for a valid base colour, generateHarmonyPalette returns exactly 5
\* colours under each of the seven named rules, and exactly one colour, the
\* base, under the default (unrecognized) rule.
C2_PaletteLength ==
    (lastEvent.name = "handleGenerateHarmony" /\ IsValidText(lastEvent.input)) =>
        LET palette == generateHarmonyPalette(lastEvent.input, harmonyRuleSelect).palette
        IN  /\ Len(paletteDisplay.swatches) = Len(palette)
            /\ IF harmonyRuleSelect = "default"
               THEN palette = <<toHexString(tinycolor(lastEvent.input))>>
               ELSE Len(palette) = 5

\* the analogous palette of a grey: six colours from tinycolor, five kept
C2_Witness ==
    /\ lastEvent.name = "handleGenerateHarmony"
    /\ lastEvent.input = <<"#", "8", "0", "8", "0", "8", "0">>
    /\ harmonyRuleSelect = "analogous"
    /\ Len(paletteDisplay.swatches) = 5

\* C3: an edit of the field to a text that does not parse leaves hue,
\* saturation and lightness unchanged and triggers no recomputation, no
\* redisplay and no redraw.
C3_InvalidTextIgnored ==
    [][(lastEvent'.name = "baseColorInput.input" /\ ~IsValidText(lastEvent'.input)) =>
            /\ picker' = picker
            /\ ~lastEvent'.displayed
            /\ paletteDisplay' = paletteDisplay
            /\ ~lastEvent'.redrawn
            /\ canvases' = canvases]_vars

\* "#12" has been typed over a picker state that is not the initial one
C3_Witness ==
    /\ lastEvent.name = "baseColorInput.input"
    /\ lastEvent.input = <<"#", "1", "2">>
    /\ currentHue = RInt(350)
    /\ ~lastEvent.redrawn

\* C4 as claimed: a malformed hex typed into the field produces the alert
\* naming the expected format.
C4_MalformedTextAlerts ==
    (lastEvent.name = "baseColorInput.input" /\ ~IsValidText(lastEvent.input)) =>
        lastEvent.alert = "invalidBaseColor"

\* C4 as amended: a malformed hex typed into the field is ignored without
\* any alert; the text stays in the field, and the picker state, the
\* selected rule and the palette stay unchanged.
C4_MalformedTextSilent ==
    [][(lastEvent'.name = "baseColorInput.input" /\ ~IsValidText(lastEvent'.input)) =>
            /\ lastEvent'.alert = "none"
            /\ ~lastEvent'.uncaught
            /\ baseColorInput' = lastEvent'.input
            /\ UNCHANGED <<picker, harmonyRuleSelect, paletteDisplay>>]_vars

\* "notacolor" has been typed and sits in the field, no alert shown
C4_Witness ==
    /\ lastEvent.name = "baseColorInput.input"
    /\ lastEvent.input = <<"n", "o", "t", "a", "c", "o", "l", "o", "r">>
    /\ baseColorInput = lastEvent.input
    /\ lastEvent.alert = "none"

\* C5: generateHarmonyPalette given a base colour string that does not
\* parse returns null and raises the invalid-base-colour alert, and
\* handleGenerateHarmony then does not call displayPalette: the palette
\* shown before stays.
C5_InvalidBaseNoPalette ==
    [][(lastEvent'.name = "handleGenerateHarmony" /\ ~IsValidText(lastEvent'.input)) =>
            LET r == generateHarmonyPalette(lastEvent'.input, harmonyRuleSelect')
            IN  /\ r.palette = <<>>
                /\ r.alert
                /\ lastEvent'.alert = "invalidBaseColor"
                /\ ~lastEvent'.displayed
                /\ paletteDisplay' = paletteDisplay]_vars

\* the derivation has run on the empty string over a displayed palette
C5_Witness ==
    /\ lastEvent.name = "handleGenerateHarmony"
    /\ lastEvent.input = <<>>
    /\ lastEvent.alert = "invalidBaseColor"
    /\ Len(paletteDisplay.swatches) = NUM_COLORS_PER_PALETTE

\* C6: a press on the wheel (the pad) sets isDraggingHue (isDraggingSL), a
\* release clears both flags, a move over the wheel (the pad) changes the
\* picker state only if its flag is set, and a flag is set by nothing but
\* the press on its canvas: moves after a release change nothing until the
\* next press.
C6_DragGating ==
    [][/\ lastEvent'.name = "hueWheelCanvas.mousedown" => isDraggingHue'
       /\ lastEvent'.name = "slPickerCanvas.mousedown" => isDraggingSL'
       /\ lastEvent'.name = "document.mouseup" => ~isDraggingHue' /\ ~isDraggingSL'
       /\ (lastEvent'.name = "hueWheelCanvas.mousemove" /\ ~isDraggingHue) => picker' = picker
       /\ (lastEvent'.name = "slPickerCanvas.mousemove" /\ ~isDraggingSL) => picker' = picker
       /\ (isDraggingHue' /\ ~isDraggingHue) => lastEvent'.name = "hueWheelCanvas.mousedown"
       /\ (isDraggingSL' /\ ~isDraggingSL) => lastEvent'.name = "slPickerCanvas.mousedown"]_vars

\* a move over the pad after the pad was pressed and the button released
C6_Witness ==
    /\ lastEvent.name = "slPickerCanvas.mousemove"
    /\ ~isDraggingSL
    /\ ~isDraggingHue
    /\ ~lastEvent.redrawn
    /\ currentSaturation = Rat(1, 2)

\* C7 as claimed: once no clipboard write and no feedback timer is pending,
\* every label shows the hex code of its swatch again.
C7_LabelsRevert ==
    (clipboard = <<>> /\ timers = <<>>) =>
        \A i \in 1..Len(paletteDisplay.swatches) :
            paletteDisplay.swatches[i].text = paletteDisplay.swatches[i].hex

\* C8 as claimed: a failed clipboard write is reported by an alert and no
\* exception leaves copyColor.
C8_FailureReported ==
    lastEvent.name = "writeText.rejected" =>
        lastEvent.alert = "copyFailed" /\ ~lastEvent.uncaught

\* C9: a press or drag on the wheel sets the hue to the pointer angle moved
\* into [0, 360) and leaves saturation and lightness alone; the hue is in
\* [0, 360) in every reachable state.
C9_HueFromWheel ==
    /\ [](RLeq(RInt(0), currentHue) /\ RLess(currentHue, RInt(360)))
    /\ [][(\/ lastEvent'.name = "hueWheelCanvas.mousedown"
           \/ lastEvent'.name = "hueWheelCanvas.mousemove" /\ isDraggingHue) =>
                /\ currentHue' = RInt((lastEvent'.input + 360) % 360)
                /\ currentSaturation' = currentSaturation
                /\ currentLightness' = currentLightness]_vars

\* the wheel pressed at -10 degrees over the colour typed as #3498db
C9_Witness ==
    /\ lastEvent.name = "hueWheelCanvas.mousedown"
    /\ lastEvent.input = -10
    /\ currentHue = RInt(350)
    /\ currentSaturation = toHsl(tinycolor(<<"#", "3", "4", "9", "8", "d", "b">>)).s

\* C10: a press or drag on the pad sets the saturation to the pointer's x
\* fraction and the lightness to 1 minus its y fraction, each fraction
\* clamped to [0, 1], and leaves the hue alone; saturation and lightness are
\* in [0, 1] in every reachable state.
C10_SLFromPad ==
    /\ [](LET unit(p) == p[1] >= 0 /\ p[1] <= p[2]
          IN  unit(currentSaturation) /\ unit(currentLightness))
    /\ [][LET frac(p) == IF p[1] < 0 THEN RInt(0) ELSE IF p[1] > p[2] THEN RInt(1) ELSE p
          IN  (\/ lastEvent'.name = "slPickerCanvas.mousedown"
               \/ lastEvent'.name = "slPickerCanvas.mousemove" /\ isDraggingSL) =>
                    /\ currentSaturation' = frac(lastEvent'.input[1])
                    /\ RAdd(currentLightness', frac(lastEvent'.input[2])) = RInt(1)
                    /\ currentHue' = currentHue]_vars

\* the pad dragged outside its bottom-left corner (black) at hue 90
C10_Witness ==
    /\ lastEvent.name = "slPickerCanvas.mousemove"
    /\ isDraggingSL
    /\ lastEvent.input = <<Rat(-1, 2), Rat(3, 2)>>
    /\ currentSaturation = RInt(0)
    /\ currentLightness = RInt(0)
    /\ currentHue = RInt(90)

\* C11: whatever values the random source yields, the random palette
\* generator returns exactly 5 strings, each a "#" followed by exactly 6
\* hexadecimal digits; all five are shown.
C11_RandomPaletteWellFormed ==
    lastEvent.name = "randomPaletteBtn.click" =>
        LET palette == generatePalette(RandomDraws(lastEvent.input))
        IN  /\ Len(palette) = 5
            /\ \A i \in 1..Len(palette) :
                    /\ Len(palette[i]) = 7
                    /\ palette[i][1] = "#"
                    /\ \A k \in 2..Len(palette[i]) : IsHexChar(palette[i][k])
            /\ Len(paletteDisplay.swatches) = 5
            /\ ~paletteDisplay.message
            /\ lastEvent.alert = "none"
            /\ ~lastEvent.uncaught

\* the random source has returned a value of at least 15 / 16 for the first
\* character: the last of the hex characters, F, is drawn
C11_Witness ==
    /\ lastEvent.name = "randomPaletteBtn.click"
    /\ RLeq(Rat(15, 16), RandomDraws(lastEvent.input)[1])
    /\ paletteDisplay.swatches[1].hex[2] = "f"
    /\ Len(paletteDisplay.swatches) = NUM_COLORS_PER_PALETTE

\* C12: in every reachable state the derivation of handleGenerateHarmony
\* cannot fail: the hex string recomputed from (currentHue,
\* currentSaturation, currentLightness) parses, generateHarmonyPalette
\* returns a palette for it and not null, and neither initializeApp nor any
\* listener has raised the invalid-base-colour alert.
C12_DerivationNeverFails ==
    LET hex == toHexString(tinycolorHsl(currentHue, currentSaturation, currentLightness))
        r == generateHarmonyPalette(hex, harmonyRuleSelect)
    IN  /\ IsValidText(hex)
        /\ r.palette # <<>>
        /\ ~r.alert
        /\ lastEvent.alert # "invalidBaseColor"
        /\ lastEvent.name \in {"initializeApp", "generateHarmonyBtn.click",
                                "harmonyRuleSelect.change", "hueWheelCanvas.mousedown",
                                "slPickerCanvas.mousedown"} => lastEvent.displayed

\* the page loaded with "notacolor" in the field: initializeApp kept the
\* default triple and handleGenerateHarmony derived its palette from it
C12_Witness ==
    /\ lastEvent.name = "initializeApp"
    /\ lastEvent.input = <<"n", "o", "t", "a", "c", "o", "l", "o", "r">>
    /\ lastEvent.displayed
    /\ lastEvent.alert = "none"
    /\ baseColorInput = <<"#", "f", "f", "0", "0", "0", "0">>
    /\ Len(paletteDisplay.swatches) >= 1

\* C13: the two drag flags are independent: a press on the pad while the
\* wheel is being dragged leaves isDraggingHue set and sets isDraggingSL,
\* and a press on the wheel while the pad is being dragged leaves
\* isDraggingSL set and sets isDraggingHue, so that a state with both flags
\* true is reachable by two presses with no release in between.
C13_FlagsIndependent ==
    [][/\ (lastEvent'.name = "slPickerCanvas.mousedown" /\ isDraggingHue) =>
              (isDraggingHue' /\ isDraggingSL')
       /\ (lastEvent'.name = "hueWheelCanvas.mousedown" /\ isDraggingSL) =>
              (isDraggingHue' /\ isDraggingSL')]_vars

\* the wheel was pressed, then the pad, with no release: both flags are set
C13_Witness ==
    /\ isDraggingHue
    /\ isDraggingSL
    /\ lastEvent.name = "slPickerCanvas.mousedown"

C15_RandomReplacesPaletteOnly ==
    [][/\ lastEvent'.name = "randomPaletteBtn.click" =>
              /\ UNCHANGED <<picker, dragging, baseColorInput, harmonyRuleSelect, canvases>>
              /\ ~lastEvent'.redrawn
              /\ lastEvent'.displayed
              /\ paletteDisplay'.title = <<"Random", "Palette">>
              /\ Len(paletteDisplay'.swatches) = NUM_COLORS_PER_PALETTE
       /\ (/\ paletteDisplay.title = <<"Random", "Palette">>
           /\ \/ lastEvent'.name \in {"hueWheelCanvas.mousedown", "slPickerCanvas.mousedown",
                                       "harmonyRuleSelect.change", "generateHarmonyBtn.click"}
              \/ lastEvent'.name = "hueWheelCanvas.mousemove" /\ isDraggingHue
              \/ lastEvent'.name = "slPickerCanvas.mousemove" /\ isDraggingSL
              \/ lastEvent'.name = "baseColorInput.input" /\ IsValidText(lastEvent'.input)) =>
              LET r == harmonyTable[currentHue', currentSaturation', currentLightness',
                                    harmonyRuleSelect']
              IN  /\ paletteDisplay'.title = <<harmonyRuleSelect', "Harmony">>
                  /\ r.harmonyPalette # <<>>
                  /\ [i \in 1..Len(paletteDisplay'.swatches) |-> paletteDisplay'.swatches[i].hex]
                        = r.harmonyPalette]_vars

\* the random palette button was clicked in the middle of a drag on the
\* wheel, the field holding a rejected text: the random palette is shown
\* and the wheel still carries the harmony palette of the picker state
C15_Witness ==
    /\ lastEvent.name = "randomPaletteBtn.click"
    /\ paletteDisplay.title = <<"Random", "Palette">>
    /\ isDraggingHue
    /\ currentHue = RInt(90)
    /\ baseColorInput = <<"#", "1", "2">>
    /\ Len(hueWheel.colors) >= 1
    /\ hueWheel.hue = currentHue

\* C16: the generate click and the rule change do not read the field: they
\* leave hue, saturation and lightness unchanged, overwrite the field with
\* the hex string of that triple and show the palette derived from it,
\* without any alert; a rejected text held by the field is thereby
\* discarded, and the palette shown is that of the last valid colour.
C16_FieldOverwrittenNotRead ==
    [][lastEvent'.name \in {"generateHarmonyBtn.click", "harmonyRuleSelect.change"} =>
            LET hex == toHexString(tinycolorHsl(currentHue, currentSaturation,
                                                currentLightness))
            IN  /\ picker' = picker
                /\ baseColorInput' = hex
                /\ IsValidText(baseColorInput')
                /\ lastEvent'.alert = "none"
                /\ ~lastEvent'.uncaught
                /\ lastEvent'.displayed
                /\ \E palette \in {generateHarmonyPalette(baseColorInput',
                                                           harmonyRuleSelect').palette} :
                      /\ palette # <<>>
                      /\ palette = [i \in 1..Len(paletteDisplay'.swatches) |->
                                      paletteDisplay'.swatches[i].hex]
                      /\ palette = hueWheel'.colors]_vars

\* the rule was changed to triad at hue 350 with the saturation and
\* lightness of #3498db: the field holds the hex string of that triple
C16_Witness ==
    /\ lastEvent.name = "harmonyRuleSelect.change"
    /\ harmonyRuleSelect = "triad"
    /\ currentHue = RInt(350)
    /\ currentSaturation = toHsl(tinycolor(<<"#", "3", "4", "9", "8", "d", "b">>)).s
    /\ baseColorInput = toHexString(tinycolorHsl(currentHue, currentSaturation,
                                                 currentLightness))
    /\ lastEvent.alert = "none"
    /\ Len(paletteDisplay.swatches) = NUM_COLORS_PER_PALETTE

=============================================================================
